---- MODULE Spec2Model ----
(***************************************************************************)
(* Model of the real-time server console session of argon-ui:              *)
(* src/src/pages/[server]/Console.tsx (component ServerConsolePage).       *)
(*                                                                         *)
(* One component instance is modelled.  Its React state, the ref wsRef,    *)
(* the sockets it created, the reconnect timers scheduled by the onclose   *)
(* callbacks and the parameter fetches in flight are the state.  The       *)
(* browser (WebSocket, setTimeout, fetch, localStorage) is the             *)
(* environment; its steps are the callbacks it delivers.                   *)
(***************************************************************************)
EXTENDS Integers, Sequences, FiniteSets, TLC

\* ------------------------------------------------------------------ bounds
\* Number of asynchronous activities (fetches in flight, sockets not yet
\* closed, pending timers) the environment may have started at one time.
MaxActive == 2
\* Number of lines the console log may hold.
MaxLog == 2
\* Number of pieces (runs of text, escape sequences) of a line given to parseAnsi.
MaxPieces == 4

\* ------------------------------------------------------------- value sets
ServerIds == {1, 2}
SocketIds == 1..(MaxActive + 1)
NoSocket == 0
NoServer == [sid |-> 0, state |-> "none"]
NoError == "null"
\* server.state as delivered by the API or a stats event
States == {"running", "Running", "stopped", "installing"}
\* text of the command input, as a sequence of characters
Commands == {<<>>, <<" ">>, <<" ", "l", "s">>}
PowerActions == {"start", "stop", "restart"}

VARIABLES
    mounted,      \* the component is mounted (effect cleanup not yet run for good)
    id,           \* useParams().id
    token,        \* localStorage holds 'token'
    fetches,      \* fetchServer calls awaiting their response: id -> count
    server,       \* useState server
    loading,      \* useState loading
    error,        \* useState error
    messages,     \* useState messages (the log buffer)
    command,      \* useState command
    connected,    \* useState connected
    powerLoading, \* useState powerLoading
    liveStats,    \* useState liveStats
    wsRef,        \* wsRef.current
    sockets,      \* the WebSocket objects still alive: id -> record
    timers,       \* pending setTimeout callbacks of onclose, in firing order
    sent,         \* frames put on the wire by the last step
    inflight,     \* history: a power_action frame was transmitted and no
                  \* power_status / error event arrived since
    last,         \* history: the operation of the last step
    \* parseAnsi (components/AnsiParser.tsx), the call in progress
    input,        \* the argument, a sequence of characters
    position,     \* let position (0-based)
    result,       \* const result: the spans pushed so far
    currentSpan,  \* let currentSpan
    returned      \* the call has returned result

vars == <<mounted, id, token, fetches, server, loading, error, messages,
          command, connected, powerLoading, liveStats, wsRef, sockets, timers, sent,
          inflight, last, input, position, result, currentSpan, returned>>

\* the state of the console session
sessionVars == <<mounted, id, token, fetches, server, loading, error, messages,
                 command, connected, powerLoading, liveStats, wsRef, sockets,
                 timers, sent, inflight, last>>

\* the state of a call of parseAnsi
parserVars == <<input, position, result, currentSpan, returned>>

connVars == <<mounted, id, token, fetches, server, loading, error,
              connected, wsRef, sockets, timers>>

ZeroMemory == [used |-> 0, limit |-> 0, percent |-> 0]
ZeroNetwork == [rxBytes |-> 0, txBytes |-> 0]
ZeroStats == [cpuPercent |-> 0, memory |-> ZeroMemory, network |-> ZeroNetwork]

\* The data object of a frame.  An absent field is "undef" (strings), -1
\* (cpu_percent) or flagged by hasLogs / hasMemory / hasNetwork.
NoData ==
    [message |-> "undef", status |-> "undef", state |-> "undef",
     hasLogs |-> FALSE, logs |-> <<>>, cpu_percent |-> -1,
     hasMemory |-> FALSE, memory |-> ZeroMemory,
     hasNetwork |-> FALSE, network |-> [rx_bytes |-> 0, tx_bytes |-> 0]]
Frame(e, d) == [event |-> e, data |-> d]
NoFrame == Frame("none", NoData)

\* history record of a step: the operation, its argument, the frame handled
Step(op, arg, frame) == [op |-> op, arg |-> arg, frame |-> frame]
EnvStep == Step("env", "-", NoFrame)

\* ---------------------------------------------------------------- helpers
\* A React state setter: ignored once the component is unmounted.
SetState(old, new) == IF mounted THEN new ELSE old

Min(S) == CHOOSE x \in S : \A y \in S : x <= y

\* WebSocket.close(): starts the closing handshake unless already closing/closed.
Close(socks, s) ==
    IF socks[s].rs \in {"CONNECTING", "OPEN"}
    THEN [socks EXCEPT ![s].rs = "CLOSING"]
    ELSE socks

\* Sockets that are closed and no longer referenced are garbage.
Collect(socks, cur) ==
    [s \in {t \in DOMAIN socks : socks[t].rs # "CLOSED" \/ t = cur} |-> socks[s]]

ReadyState == IF wsRef = NoSocket THEN "NONE" ELSE sockets[wsRef].rs

\* activities the environment has started and not yet finished
Active ==
    Cardinality({s \in DOMAIN sockets : sockets[s].rs # "CLOSED"})
    + fetches[1] + fetches[2] + Len(timers)

\* ------------------------------------------------------------------- Init
\* the session after the first render of the page
InitSession ==
    /\ mounted = TRUE
    /\ id = 1
    /\ token = TRUE
    /\ fetches = [i \in ServerIds |-> IF i = id THEN 1 ELSE 0]
    /\ server = NoServer
    /\ loading = TRUE
    /\ error = NoError
    /\ messages = <<>>
    /\ command = <<>>
    /\ connected = FALSE
    /\ powerLoading = FALSE
    /\ liveStats = ZeroStats
    /\ wsRef = NoSocket
    /\ sockets = <<>>
    /\ timers = <<>>
    /\ sent = <<>>
    /\ inflight = FALSE
    /\ last = EnvStep

\* SpanStyle: a property that is not set is "unset"
NoStyle ==
    [fontWeight |-> "unset", fontStyle |-> "unset", textDecoration |-> "unset",
     color |-> "unset", backgroundColor |-> "unset"]
Span(text, style) == [text |-> text, style |-> style]

\* parseAnsi(line) at its first statement after the declarations
Called(line) ==
    /\ input = line
    /\ position = 0
    /\ result = <<>>
    /\ currentSpan = Span(<<>>, NoStyle)
    /\ returned = FALSE

\* no line is rendered before the first message arrives
Init == InitSession /\ Called(<<>>)

\* ---------------------------------------------------------- initWebSocket
\* variant: initWebSocket without wsRef.current.close()
initWebSocketMut(d, by, shown) ==
    IF ~token
    THEN /\ error' = SetState(error, "Authentication token not found")
         /\ UNCHANGED <<wsRef, sockets>>
    ELSE LET closed == sockets
             kept == Collect(closed, NoSocket)
             ws == Min(SocketIds \ DOMAIN kept)
         IN /\ error' = error
            /\ wsRef' = ws
            /\ sockets' = [s \in DOMAIN kept \cup {ws} |->
                             IF s = ws
                             THEN [rs |-> "CONNECTING", data |-> d, by |-> by,
                                   shown |-> shown, late |-> ~mounted]
                             ELSE kept[s]]

\* initWebSocket(serverData): fixes error', wsRef', sockets'.
\* by records who called it ("fetch" or "timer"), shown the server the
\* page displays at the call.
initWebSocket(d, by, shown) ==
    IF ~token
    THEN /\ error' = SetState(error, "Authentication token not found")
         /\ UNCHANGED <<wsRef, sockets>>
    ELSE LET closed == IF wsRef # NoSocket THEN Close(sockets, wsRef) ELSE sockets
             kept == Collect(closed, NoSocket)
             ws == Min(SocketIds \ DOMAIN kept)
         IN /\ error' = error
            /\ wsRef' = ws
            /\ sockets' = [s \in DOMAIN kept \cup {ws} |->
                             IF s = ws
                             THEN [rs |-> "CONNECTING", data |-> d, by |-> by,
                                   shown |-> shown, late |-> ~mounted]
                             ELSE kept[s]]

\* the cleanup returned by the effect
Cleanup(socks) == IF wsRef # NoSocket THEN Close(socks, wsRef) ELSE socks

\* ------------------------------------------------------------ fetchServer
\* The response arrived, is ok and carries the node: setServer, initWebSocket,
\* finally setLoading(false).
FetchOk(i, st) ==
    /\ fetches[i] > 0
    /\ fetches' = [fetches EXCEPT ![i] = @ - 1]
    /\ server' = SetState(server, [sid |-> i, state |-> st])
    /\ initWebSocket(i, "fetch", SetState(server, [sid |-> i, state |-> st]).sid)
    /\ loading' = SetState(loading, FALSE)
    /\ sent' = <<>>
    /\ last' = Step("fetchServer", "ok", NoFrame)
    /\ UNCHANGED <<mounted, id, token, messages, command, connected,
                   powerLoading, timers, inflight, liveStats>>
    /\ UNCHANGED parserVars

\* The response is not ok, or the node information is missing, or the request
\* failed: setError, finally setLoading(false).  With no server loaded the
\* next render throws (server?.state... .replace on NaN) and React unmounts
\* the tree, which runs the effect cleanup.
FetchFail(i, msg) ==
    /\ fetches[i] > 0
    /\ fetches' = [fetches EXCEPT ![i] = @ - 1]
    /\ error' = SetState(error, msg)
    /\ loading' = SetState(loading, FALSE)
    /\ mounted' = (mounted /\ server # NoServer)
    /\ sockets' = IF mounted /\ ~mounted' THEN Cleanup(sockets) ELSE sockets
    /\ sent' = <<>>
    /\ last' = Step("fetchServer", msg, NoFrame)
    /\ UNCHANGED <<id, token, server, messages, command, connected,
                   powerLoading, wsRef, timers, inflight, liveStats>>
    /\ UNCHANGED parserVars

\* ------------------------------------------------------- effect lifecycle
\* The route parameter changes: cleanup of the previous effect, then the
\* effect runs again and calls fetchServer.
ChangeId(i) ==
    /\ mounted
    /\ i # id
    /\ Active < MaxActive
    /\ id' = i
    /\ sockets' = Cleanup(sockets)
    /\ fetches' = [fetches EXCEPT ![i] = @ + 1]
    /\ sent' = <<>>
    /\ last' = EnvStep
    /\ UNCHANGED <<mounted, token, server, loading, error, messages, command,
                   connected, powerLoading, wsRef, timers, inflight, liveStats>>
    /\ UNCHANGED parserVars

\* The page is left: the cleanup runs.  logout removes the token first
\* (Auth.tsx logout), plain navigation keeps it.
Unmount(logout) ==
    /\ mounted
    /\ mounted' = FALSE
    /\ token' = (token /\ ~logout)
    /\ sockets' = Cleanup(sockets)
    /\ sent' = <<>>
    /\ last' = EnvStep
    /\ UNCHANGED <<id, fetches, server, loading, error, messages, command,
                   connected, powerLoading, wsRef, timers, inflight, liveStats>>
    /\ UNCHANGED parserVars

\* Another tab of the panel removes the token from the shared localStorage.
RemoveToken ==
    /\ token
    /\ token' = FALSE
    /\ sent' = <<>>
    /\ last' = EnvStep
    /\ UNCHANGED <<mounted, id, fetches, server, loading, error, messages,
                   command, connected, powerLoading, wsRef, sockets, timers,
                   inflight, liveStats>>
    /\ UNCHANGED parserVars

\* ------------------------------------------------------- socket callbacks
\* ws.onopen
WsOpen(s) ==
    /\ s \in DOMAIN sockets
    /\ sockets[s].rs = "CONNECTING"
    /\ sockets' = [sockets EXCEPT ![s].rs = "OPEN"]
    /\ connected' = SetState(connected, TRUE)
    /\ error' = SetState(error, NoError)
    /\ sent' = <<>>
    /\ last' = EnvStep
    /\ UNCHANGED <<mounted, id, token, fetches, server, loading, messages,
                   command, powerLoading, wsRef, timers, inflight, liveStats>>
    /\ UNCHANGED parserVars

\* The peer starts the closing handshake: readyState becomes CLOSING, no
\* callback of the page runs.
WsClosing(s) ==
    /\ s \in DOMAIN sockets
    /\ sockets[s].rs = "OPEN"
    /\ sockets' = [sockets EXCEPT ![s].rs = "CLOSING"]
    /\ sent' = <<>>
    /\ last' = EnvStep
    /\ UNCHANGED <<mounted, id, token, fetches, server, loading, error,
                   messages, command, connected, powerLoading, wsRef, timers,
                   inflight, liveStats>>
    /\ UNCHANGED parserVars

\* variant: a connection that failed is not retried
WsClosedMut(s, failed) ==
    /\ s \in DOMAIN sockets
    /\ sockets[s].rs # "CLOSED"
    /\ sockets[s].rs = "CONNECTING" => failed
    /\ sockets' = Collect([sockets EXCEPT ![s].rs = "CLOSED"], wsRef)
    /\ error' = IF failed
                THEN SetState(error, "We're having trouble connecting to your server...")
                ELSE error
    /\ connected' = SetState(connected, FALSE)
    /\ timers' = IF failed THEN timers ELSE Append(timers, sockets[s].data)
    /\ sent' = <<>>
    /\ last' = EnvStep
    /\ UNCHANGED <<mounted, id, token, fetches, server, loading, messages,
                   command, powerLoading, wsRef, inflight, liveStats>>
    /\ UNCHANGED parserVars

\* The connection is closed (or could not be established): readyState becomes
\* CLOSED; when it failed ws.onerror runs first; then ws.onclose runs, which
\* schedules the reconnect timer holding serverData of this socket.
WsClosed(s, failed) ==
    /\ s \in DOMAIN sockets
    /\ sockets[s].rs # "CLOSED"
    /\ sockets[s].rs = "CONNECTING" => failed
    /\ sockets' = Collect([sockets EXCEPT ![s].rs = "CLOSED"], wsRef)
    /\ error' = IF failed
                THEN SetState(error, "We're having trouble connecting to your server...")
                ELSE error
    /\ connected' = SetState(connected, FALSE)
    /\ timers' = Append(timers, sockets[s].data)
    /\ sent' = <<>>
    /\ last' = EnvStep
    /\ UNCHANGED <<mounted, id, token, fetches, server, loading, messages,
                   command, powerLoading, wsRef, inflight, liveStats>>
    /\ UNCHANGED parserVars

\* variant: the timer callback reconnects only when no socket is held
ReconnectGuardMut == wsRef = NoSocket

\* the condition of the timer callback
ReconnectGuard == wsRef = NoSocket \/ sockets[wsRef].rs = "CLOSED"

\* The oldest reconnect timer fires (all timers have the same delay).
TimerFire ==
    /\ timers # <<>>
    /\ timers' = Tail(timers)
    /\ IF ReconnectGuard
       THEN initWebSocket(Head(timers), "timer", server.sid)
       ELSE UNCHANGED <<error, wsRef, sockets>>
    /\ sent' = <<>>
    /\ last' = EnvStep
    /\ UNCHANGED <<mounted, id, token, fetches, server, loading, messages,
                   command, connected, powerLoading, inflight, liveStats>>
    /\ UNCHANGED parserVars

\* ----------------------------------------------------------- user actions
Lower(st) == IF st = "Running" THEN "running" ELSE st

\* variant: every state but 'stopped' counts as active
isServerActiveMut == server # NoServer /\ Lower(server.state) # "stopped"

\* const isServerActive = server?.state?.toLowerCase() === 'running'
isServerActive == server # NoServer /\ Lower(server.state) = "running"

IsSpace(c) == c = " "
RECURSIVE TrimStart(_)
TrimStart(t) == IF t # <<>> /\ IsSpace(Head(t)) THEN TrimStart(Tail(t)) ELSE t
RECURSIVE TrimEnd(_)
TrimEnd(t) ==
    IF t # <<>> /\ IsSpace(t[Len(t)]) THEN TrimEnd(SubSeq(t, 1, Len(t) - 1)) ELSE t
\* String.prototype.trim
Trim(t) == TrimEnd(TrimStart(t))

\* variant: the new line is put in front
AppendLineMut(log, line) == <<line>> \o log

\* setMessages(prev => [...prev, line])
AppendLine(log, line) == log \o <<line>>

NotConnectedLine ==
    <<"ESC[33m",
      "[System] Cannot send command - WebSocket not connected or empty command",
      "ESC[0m">>
NotRunningLine ==
    <<"ESC[33m", "[System] Cannot send command - server is not running", "ESC[0m">>
FailedLine == <<"ESC[31m", "[System] Failed to send command: ", "InvalidStateError", "ESC[0m">>
\* '\x1b[32m$ \x1b[0m' + command + '\x1b[0m'
EchoLine(c) == <<"ESC[32m", "$", " ", "ESC[0m">> \o c \o <<"ESC[0m">>

CommandFrame(c) == [event |-> "send_command", data |-> c]

\* variant: the power frame is built with the event name of a command frame
PowerFrameMut(a) == [event |-> "send_command", data |-> [action |-> a]]

\* JSON.stringify({ event: 'power_action', data: { action } })
PowerFrame(a) == [event |-> "power_action", data |-> [action |-> a]]

\* WebSocket.send(frame) on the held socket: "throw" while CONNECTING, the
\* frame goes on the wire while OPEN, it is dropped silently while CLOSING or
\* CLOSED.
SendOutcome == CASE ReadyState = "CONNECTING" -> "throw"
                 [] ReadyState = "OPEN" -> "sent"
                 [] OTHER -> "dropped"

\* onChange of the command input
SetCommand(c) ==
    /\ mounted /\ ~loading
    /\ c # command
    /\ command' = c
    /\ sent' = <<>>
    /\ last' = EnvStep
    /\ UNCHANGED <<connVars, messages, powerLoading, inflight, liveStats>>
    /\ UNCHANGED parserVars

\* the handler sendCommand: fixes messages', command', sent'
sendCommand ==
    IF Trim(command) = <<>> \/ wsRef = NoSocket
    THEN /\ messages' = AppendLine(messages, NotConnectedLine)
         /\ sent' = <<>>
         /\ UNCHANGED command
    ELSE IF ~isServerActive
    THEN /\ messages' = AppendLine(messages, NotRunningLine)
         /\ sent' = <<>>
         /\ UNCHANGED command
    ELSE IF SendOutcome = "throw"
    THEN /\ messages' = AppendLine(messages, FailedLine)
         /\ sent' = <<>>
         /\ UNCHANGED command
    ELSE /\ sent' = IF SendOutcome = "sent" THEN <<CommandFrame(command)>> ELSE <<>>
         /\ messages' = AppendLine(messages, EchoLine(command))
         /\ command' = <<>>

\* disabled={!connected || !isServerActive} of the submit button
SendDisabled == ~connected \/ ~isServerActive

\* The user submits the command form (Send button or Enter): nothing happens
\* while the submit button is disabled, otherwise sendCommand runs.
SubmitForm ==
    /\ mounted /\ ~loading
    /\ Len(messages) < MaxLog
    /\ last' = Step("sendCommand", "-", NoFrame)
    /\ IF SendDisabled
       THEN /\ sent' = <<>>
            /\ UNCHANGED <<messages, command>>
       ELSE sendCommand
    /\ UNCHANGED <<connVars, powerLoading, inflight, liveStats>>
    /\ UNCHANGED parserVars

\* variant: handlePowerAction without setPowerLoading(true)
handlePowerActionMut(a) ==
    IF server = NoServer \/ powerLoading \/ wsRef = NoSocket
    THEN /\ sent' = <<>>
         /\ UNCHANGED <<powerLoading, error, inflight>>
    ELSE IF SendOutcome = "throw"
    THEN /\ sent' = <<>>
         /\ error' = "InvalidStateError"
         /\ powerLoading' = FALSE
         /\ UNCHANGED inflight
    ELSE /\ sent' = IF SendOutcome = "sent" THEN <<PowerFrame(a)>> ELSE <<>>
         /\ inflight' = (inflight \/ SendOutcome = "sent")
         /\ UNCHANGED <<powerLoading, error>>

\* the handler handlePowerAction: fixes powerLoading', error', sent', inflight'
handlePowerAction(a) ==
    IF server = NoServer \/ powerLoading \/ wsRef = NoSocket
    THEN /\ sent' = <<>>
         /\ UNCHANGED <<powerLoading, error, inflight>>
    ELSE IF SendOutcome = "throw"
    THEN /\ sent' = <<>>
         /\ error' = "InvalidStateError"
         /\ powerLoading' = FALSE
         /\ UNCHANGED inflight
    ELSE /\ sent' = IF SendOutcome = "sent" THEN <<PowerFrame(a)>> ELSE <<>>
         /\ powerLoading' = TRUE
         /\ inflight' = (inflight \/ SendOutcome = "sent")
         /\ UNCHANGED error

\* variant: the stop button carries the condition of the start button
PowerDisabledMut(a) ==
    IF a \in {"start", "stop"} THEN powerLoading \/ isServerActive
                              ELSE powerLoading \/ ~isServerActive

\* disabled=... of the three power buttons
PowerDisabled(a) ==
    IF a = "start" THEN powerLoading \/ isServerActive
                   ELSE powerLoading \/ ~isServerActive

\* The user presses a power button: nothing happens while it is disabled,
\* otherwise handlePowerAction(a) runs.
ClickPower(a) ==
    /\ mounted /\ ~loading
    /\ last' = Step("power", a, NoFrame)
    /\ IF PowerDisabled(a)
       THEN /\ sent' = <<>>
            /\ UNCHANGED <<powerLoading, error, inflight>>
       ELSE handlePowerAction(a)
    /\ UNCHANGED <<mounted, id, token, fetches, server, loading, connected,
                   wsRef, sockets, timers, messages, command, liveStats>>
    /\ UNCHANGED parserVars

\* ------------------------------------------------------------ ws.onmessage
History == <<<<"h1">>, <<"h2">>>>
FullStats ==
    [NoData EXCEPT !.cpu_percent = 12, !.hasMemory = TRUE,
                   !.memory = [used |-> 100, limit |-> 200, percent |-> 50],
                   !.hasNetwork = TRUE,
                   !.network = [rx_bytes |-> 10, tx_bytes |-> 20]]
CpuOnlyStats == [NoData EXCEPT !.cpu_percent = 12]

Inbound ==
    {Frame("console_output", [NoData EXCEPT !.message = "out"]),
     Frame("console_output", NoData),
     Frame("auth_success", [NoData EXCEPT !.hasLogs = TRUE, !.logs = History]),
     Frame("auth_success", [NoData EXCEPT !.hasLogs = TRUE]),
     Frame("auth_success", NoData),
     Frame("power_status", [NoData EXCEPT !.status = "started"]),
     Frame("power_status", NoData),
     Frame("error", [NoData EXCEPT !.message = "boom"]),
     Frame("error", [NoData EXCEPT !.message = ""]),
     Frame("error", NoData),
     Frame("ping", NoData)}
    \cup {Frame("stats", [d EXCEPT !.state = st]) :
            d \in {NoData, FullStats, CpuOnlyStats}, st \in States \cup {"undef"}}

\* the frames that act on the lifecycle state, the pending power action and
\* the session error
Control ==
    {m \in Inbound :
        \/ m.event = "power_status" /\ m.data.status # "undef"
        \/ m.event = "error" /\ m.data.message # ""
        \/ m.event = "stats" /\ m.data.cpu_percent = -1 /\ m.data.state # "undef"}

\* variant: the message is used without a fallback
ErrorMsgMut(d) == d.message

\* message.data.message || 'An unknown error occurred'
ErrorMsg(d) ==
    IF d.message \in {"undef", ""} THEN "An unknown error occurred" ELSE d.message

\* variant: a part the event lacks keeps the value of the previous snapshot
StatsOfMut(d) ==
    [cpuPercent |-> d.cpu_percent,
     memory |-> IF d.hasMemory THEN d.memory ELSE liveStats.memory,
     network |-> IF d.hasNetwork
                 THEN [rxBytes |-> d.network.rx_bytes, txBytes |-> d.network.tx_bytes]
                 ELSE liveStats.network]

\* the liveStats object built by case 'stats'
StatsOf(d) ==
    [cpuPercent |-> d.cpu_percent,
     memory |-> IF d.hasMemory THEN d.memory ELSE ZeroMemory,
     network |-> IF d.hasNetwork
                 THEN [rxBytes |-> d.network.rx_bytes, txBytes |-> d.network.tx_bytes]
                 ELSE ZeroNetwork]

\* variant: a default case writes the event kind it does not know to the log
AppendedMut(m) ==
    CASE m.event = "console_output" /\ m.data.message # "undef" -> <<<<m.data.message>>>>
      [] m.event = "power_status" /\ m.data.status # "undef" -> <<<<m.data.status>>>>
      [] m.event = "error" -> <<<<"Error: ", ErrorMsg(m.data)>>>>
      [] m.event \in {"auth_success", "stats"} -> <<>>
      [] OTHER -> <<<<"Unknown event: ", m.event>>>>

\* the lines a frame appends to the log
Appended(m) ==
    CASE m.event = "console_output" /\ m.data.message # "undef" -> <<<<m.data.message>>>>
      [] m.event = "power_status" /\ m.data.status # "undef" -> <<<<m.data.status>>>>
      [] m.event = "error" -> <<<<"Error: ", ErrorMsg(m.data)>>>>
      [] OTHER -> <<>>

\* variant: the history is replayed newest first
MapLogsMut(logs) == [k \in 1..Len(logs) |-> logs[Len(logs) + 1 - k]]

\* message.data.logs.map(log => log)
MapLogs(logs) == [k \in 1..Len(logs) |-> logs[k]]

\* variant: the log is set to data.logs || []
ReplayMut(log, d) == MapLogs(d.logs)

\* case 'auth_success': if (message.data.logs) setMessages(logs.map(log => log))
Replay(log, d) == IF d.hasLogs THEN MapLogs(d.logs) ELSE log

\* variant: only power_status ends the pending power action
ClearsPendingMut(e) == e = "power_status"

\* the cases of the switch that call setPowerLoading(false)
ClearsPending(e) == e \in {"power_status", "error"}

\* The switch of ws.onmessage on the parsed frame m: fixes messages',
\* liveStats', server', powerLoading', error', inflight'.
Dispatch(m) ==
    /\ messages' =
         SetState(messages,
                  IF m.event = "auth_success" THEN Replay(messages, m.data)
                  ELSE IF Len(Appended(m)) = 0 THEN messages
                  ELSE AppendLine(messages, Appended(m)[1]))
    /\ liveStats' =
         SetState(liveStats,
                  IF m.event = "stats" /\ m.data.cpu_percent # -1
                  THEN StatsOf(m.data) ELSE liveStats)
    /\ server' =
         SetState(server,
                  IF m.event = "stats" /\ m.data.state # "undef" /\ server # NoServer
                  THEN [server EXCEPT !.state = m.data.state] ELSE server)
    /\ powerLoading' =
         SetState(powerLoading,
                  IF ClearsPending(m.event) THEN FALSE ELSE powerLoading)
    /\ error' =
         SetState(error, IF m.event = "error" THEN ErrorMsg(m.data) ELSE error)
    /\ inflight' = (inflight /\ ~ClearsPending(m.event))

\* ws.onmessage of socket s receives the text of the frame m
WsMessage(s, m) ==
    /\ s \in DOMAIN sockets
    /\ sockets[s].rs = "OPEN"
    /\ Len(messages) + Len(Appended(m)) <= MaxLog
    /\ Dispatch(m)
    /\ sent' = <<>>
    /\ last' = Step("message", "-", m)
    /\ UNCHANGED <<mounted, id, token, fetches, loading, command, connected,
                   wsRef, sockets, timers>>
    /\ UNCHANGED parserVars

\* Texts that are not the envelope {event, data: object}:
\*   "syntax"     not JSON at all: JSON.parse throws;
\*   "nodata"     a JSON object without data (or with data null): the first
\*                read of message.data.x throws in each case of the switch,
\*                an event without a case reads nothing;
\*   "primitive"  data is a number, a string or a boolean: every read of
\*                message.data.x yields undefined and the case runs.
EventKinds == {"console_output", "auth_success", "stats", "power_status", "error", "ping"}
Malformed ==
    {[kind |-> "syntax", event |-> "none"]}
    \cup [kind : {"nodata", "primitive"}, event : EventKinds]

\* ws.onmessage of socket s receives the malformed text b.  An exception
\* thrown by the handler is reported by the browser and changes nothing.
WsMalformed(s, b) ==
    /\ s \in DOMAIN sockets
    /\ sockets[s].rs = "OPEN"
    /\ IF b.kind = "primitive"
       THEN /\ Len(messages) + Len(Appended(Frame(b.event, NoData))) <= MaxLog
            /\ Dispatch(Frame(b.event, NoData))
       ELSE UNCHANGED <<messages, liveStats, server, powerLoading, error, inflight>>
    /\ sent' = <<>>
    /\ last' = Step("malformed", b.kind, Frame(b.event, NoData))
    /\ UNCHANGED <<mounted, id, token, fetches, loading, command, connected,
                   wsRef, sockets, timers>>
    /\ UNCHANGED parserVars

\* --------------------------------------------------------------- parseAnsi
\* Characters are one-character strings; ESC stands for '\u001b'.
ESC == "ESC"
Digits == <<"0", "1", "2", "3", "4", "5", "6", "7", "8", "9">>
IsDigit(c) == \E d \in 1..10 : Digits[d] = c
DigitValue(c) == (CHOOSE d \in 1..10 : Digits[d] = c) - 1

\* Number(token) yields NaN for a token that is not a number
NaN == -1
RECURSIVE Decimal(_)
Decimal(t) ==
    IF t = <<>> THEN 0
    ELSE 10 * Decimal(SubSeq(t, 1, Len(t) - 1)) + DigitValue(t[Len(t)])
\* Number(token) for tokens of the characters of the lines modelled: the empty
\* token is 0, a token of decimal digits its value, any other token NaN
Number(t) == IF \A k \in 1..Len(t) : IsDigit(t[k]) THEN Decimal(t) ELSE NaN

\* code.split(';')
RECURSIVE Split(_)
Split(code) ==
    IF \E k \in 1..Len(code) : code[k] = ";"
    THEN LET k == CHOOSE j \in 1..Len(code) :
                    code[j] = ";" /\ \A i \in 1..(j - 1) : code[i] # ";"
         IN <<SubSeq(code, 1, k - 1)>> \o Split(SubSeq(code, k + 1, Len(code)))
    ELSE <<code>>

\* ANSI_COLORS
ANSI_COLORS ==
    [n \in 0..15 |->
       CASE n = 0 -> "#000000" [] n \in {1, 9} -> "#d16969"
         [] n \in {2, 10} -> "#b5cea8" [] n \in {3, 11} -> "#d7ba7d"
         [] n \in {4, 12} -> "#569cd6" [] n \in {5, 13} -> "#c586c0"
         [] n \in {6, 14} -> "#9cdcfe" [] n = 7 -> "#d4d4d4"
         [] n = 8 -> "#808080" [] n = 15 -> "#ffffff"]

\* variant: the reset clears the flags and keeps the colours
ResetStyleMut(style) ==
    [style EXCEPT !.fontWeight = "unset", !.fontStyle = "unset",
                  !.textDecoration = "unset"]

\* currentSpan.style = {}
ResetStyle(style) == NoStyle

\* variant: the bright foreground codes set the background
ApplyCodeMut(style, code) ==
    CASE code = 0 -> ResetStyle(style)
      [] code = 1 -> [style EXCEPT !.fontWeight = "bold"]
      [] code = 3 -> [style EXCEPT !.fontStyle = "italic"]
      [] code = 4 -> [style EXCEPT !.textDecoration = "underline"]
      [] code >= 30 /\ code <= 37 -> [style EXCEPT !.color = ANSI_COLORS[code - 30]]
      [] code >= 90 /\ code <= 97 ->
           [style EXCEPT !.backgroundColor = ANSI_COLORS[code - 82]]
      [] code >= 40 /\ code <= 47 ->
           [style EXCEPT !.backgroundColor = ANSI_COLORS[code - 40]]
      [] code >= 100 /\ code <= 107 ->
           [style EXCEPT !.backgroundColor = ANSI_COLORS[code - 92]]
      [] OTHER -> style

\* the body of the for loop over codes: one code applied to the style
ApplyCode(style, code) ==
    CASE code = 0 -> ResetStyle(style)
      [] code = 1 -> [style EXCEPT !.fontWeight = "bold"]
      [] code = 3 -> [style EXCEPT !.fontStyle = "italic"]
      [] code = 4 -> [style EXCEPT !.textDecoration = "underline"]
      [] code >= 30 /\ code <= 37 -> [style EXCEPT !.color = ANSI_COLORS[code - 30]]
      [] code >= 90 /\ code <= 97 -> [style EXCEPT !.color = ANSI_COLORS[code - 82]]
      [] code >= 40 /\ code <= 47 ->
           [style EXCEPT !.backgroundColor = ANSI_COLORS[code - 40]]
      [] code >= 100 /\ code <= 107 ->
           [style EXCEPT !.backgroundColor = ANSI_COLORS[code - 92]]
      [] OTHER -> style

\* the for loop over codes
RECURSIVE ApplyCodes(_, _)
ApplyCodes(style, codes) ==
    IF codes = <<>> THEN style
    ELSE ApplyCodes(ApplyCode(style, Head(codes)), Tail(codes))

\* input[position] === '\u001b' && input[position + 1] === '['
IsIntroducer(inp, p) ==
    /\ p + 1 <= Len(inp) /\ inp[p + 1] = ESC
    /\ p + 2 <= Len(inp) /\ inp[p + 2] = "["

\* while (position < input.length && input[position] !== 'm') position++:
\* the position the loop ends at when it starts at p
RECURSIVE CodeEnd(_, _)
CodeEnd(inp, p) ==
    IF p < Len(inp) /\ inp[p + 1] # "m" THEN CodeEnd(inp, p + 1) ELSE p

\* the string code collected by that loop for the introducer at p
CodeAt(inp, p) == SubSeq(inp, p + 3, CodeEnd(inp, p + 2))

\* code.split(';').map(Number)
CodesAt(inp, p) ==
    LET toks == Split(CodeAt(inp, p)) IN [k \in 1..Len(toks) |-> Number(toks[k])]

\* variant: the 'm' that ends the code is not skipped
AfterCodeMut(inp, p) == CodeEnd(inp, p + 2)

\* position++ // Skip the 'm'
AfterCode(inp, p) == CodeEnd(inp, p + 2) + 1

\* variant: the span is pushed whether or not it holds text
FlushMut(res, span) == Append(res, span)

\* if (currentSpan.text) result.push({ ...currentSpan })
Flush(res, span) == IF span.text # <<>> THEN Append(res, span) ELSE res

\* variant: the span begun after a push starts with an empty style
CarriedMut(style) == NoStyle

\* style: { ...currentSpan.style } of the span begun after a push
Carried(style) == style

\* variant: an ESC that begins no sequence is not stepped over
TextAdvanceMut(inp, p) == IF inp[p + 1] = ESC THEN p ELSE p + 1

\* position++ of the else branch
TextAdvance(inp, p) == p + 1

\* one pass of the outer loop at an escape introducer
ParseEscape ==
    /\ ~returned
    /\ position < Len(input)
    /\ IsIntroducer(input, position)
    /\ result' = Flush(result, currentSpan)
    /\ currentSpan' =
         Span(<<>>, ApplyCodes(Carried(currentSpan.style), CodesAt(input, position)))
    /\ position' = AfterCode(input, position)
    /\ UNCHANGED <<sessionVars, input, returned>>

\* one pass of the outer loop at any other character
ParseText ==
    /\ ~returned
    /\ position < Len(input)
    /\ ~IsIntroducer(input, position)
    /\ currentSpan' = [currentSpan EXCEPT !.text = Append(@, input[position + 1])]
    /\ position' = TextAdvance(input, position)
    /\ UNCHANGED <<sessionVars, input, result, returned>>

\* the loop has ended: push any remaining text, return result
ParseReturn ==
    /\ ~returned
    /\ position >= Len(input)
    /\ result' = Flush(result, currentSpan)
    /\ returned' = TRUE
    /\ UNCHANGED <<sessionVars, input, position, currentSpan>>

\* the escape sequence ESC [ code m
Sgr(code) == <<ESC, "[">> \o code \o <<"m">>

\* Parts of console lines: text (the letter m included), a lone ESC, escape
\* sequences with known, unknown, empty and non-numeric codes, and an
\* introducer whose 'm' is missing.
Pieces ==
    {<<"a">>, <<"m">>, <<ESC>>,
     Sgr(<<>>), Sgr(<<"0", ";", "4">>), Sgr(<<"5", ";", "1">>),
     Sgr(<<"3", "1", ";", "3">>), Sgr(<<"x", ";", "9", "1", ";", "1", "0", "3">>),
     <<ESC, "[", "4", "2">>}

\* the lines made of at most n pieces
RECURSIVE LinesOf(_)
LinesOf(n) ==
    IF n = 0 THEN {<<>>}
    ELSE LinesOf(n - 1) \cup {l \o q : l \in LinesOf(n - 1), q \in Pieces}

\* ---------------------------------------------------------- specification
\* Connection supervision alone: no action of it reads server.state, which is
\* therefore fixed here.
NextConn ==
    \/ \E i \in ServerIds : FetchOk(i, "running")
    \/ \E i \in ServerIds,
          msg \in {"Failed to fetch server", "Server node information is missing"} :
          FetchFail(i, msg)
    \/ \E i \in ServerIds : ChangeId(i)
    \/ \E lo \in BOOLEAN : Unmount(lo)
    \/ RemoveToken
    \/ \E s \in SocketIds : WsOpen(s)
    \/ \E s \in SocketIds : WsClosing(s)
    \/ \E s \in SocketIds, f \in BOOLEAN : WsClosed(s, f)
    \/ TimerFire

SpecConn == Init /\ [][NextConn]_vars

\* The operations of the console session of one server while its page is
\* shown: the user's actions, and the frames of the node agent that act on
\* what the actions read, over the socket callbacks and the reconnect timer.
\* Leaving the page, a change of the route parameter and the loss of the token
\* are the subject of SpecConn.
Next ==
    \/ \E i \in ServerIds, st \in States : FetchOk(i, st)
    \/ \E i \in ServerIds,
          msg \in {"Failed to fetch server", "Server node information is missing"} :
          FetchFail(i, msg)
    \/ \E s \in SocketIds : WsOpen(s)
    \/ \E s \in SocketIds : WsClosing(s)
    \/ \E s \in SocketIds, f \in BOOLEAN : WsClosed(s, f)
    \/ TimerFire
    \/ \E s \in SocketIds, m \in Control : WsMessage(s, m)
    \/ \E c \in Commands : SetCommand(c)
    \/ SubmitForm
    \/ \E a \in PowerActions : ClickPower(a)

Spec == Init /\ [][Next]_vars

\* fairness of the browser's timer queue: a pending timer fires
SpecConnFair == SpecConn /\ WF_vars(TimerFire)

\* The frames that write to the log or leave it alone, without the telemetry.
LogFrames == {m \in Inbound : m.event # "stats"}

\* The log of one server's session: the frames of the node agent that write
\* to it arriving on the session's sockets while the user submits commands.
NextDispatch ==
    \/ \E i \in ServerIds : FetchOk(i, "running")
    \/ \E s \in SocketIds : WsOpen(s)
    \/ \E s \in SocketIds, f \in BOOLEAN : WsClosed(s, f)
    \/ TimerFire
    \/ \E s \in SocketIds, m \in LogFrames : WsMessage(s, m)
    \/ \E c \in Commands : SetCommand(c)
    \/ SubmitForm

SpecDispatch == Init /\ [][NextDispatch]_vars

\* Every kind of event, the telemetry in all its shapes, and the texts that
\* are not frames; of the console_output and auth_success frames, which only
\* differ in the lines they write, one each.
TelemetryFrames ==
    {m \in Inbound :
        m.event \in {"stats", "power_status", "error", "ping"} \/ m.data = NoData}

\* The telemetry, the lifecycle state, the session error and the pending power
\* action of one server's session under every kind of inbound text.
NextTelemetry ==
    \/ \E i \in ServerIds : FetchOk(i, "stopped")
    \/ \E s \in SocketIds : WsOpen(s)
    \/ \E s \in SocketIds, f \in BOOLEAN : WsClosed(s, f)
    \/ TimerFire
    \/ \E s \in SocketIds, m \in TelemetryFrames : WsMessage(s, m)
    \/ \E s \in SocketIds, b \in Malformed : WsMalformed(s, b)
    \/ \E a \in PowerActions : ClickPower(a)

SpecTelemetry == Init /\ [][NextTelemetry]_vars

\* parseAnsi called on one line of the log, run to its return
InitParse == InitSession /\ \E line \in LinesOf(MaxPieces) : Called(line)

NextParse == ParseEscape \/ ParseText \/ ParseReturn

SpecParse == InitParse /\ [][NextParse]_vars

\* ================================================================= claims
HeldClosed == wsRef # NoSocket /\ sockets[wsRef].rs = "CLOSED"

\* C1: explicit close is terminal: no socket is ever created after the page
\* teardown ran (whatever the order of onclose, the reconnect timer and a
\* fetch that was still in flight).
C1_CloseIsTerminal == \A s \in DOMAIN sockets : ~sockets[s].late

\* C2: reconnect eventually fires: whenever the socket held by a mounted
\* session has reported onclose, initWebSocket is called again and replaces
\* it (as long as the page stays mounted and the token is there), after every
\* failed attempt.
C2_ReconnectEventuallyFires ==
    (mounted /\ token /\ HeldClosed) ~> (~mounted \/ ~token \/ ~HeldClosed)

\* a socket created by the reconnect timer is held and has opened
C2_Witness ==
    /\ mounted
    /\ wsRef # NoSocket
    /\ sockets[wsRef].by = "timer"
    /\ sockets[wsRef].rs = "OPEN"

\* C3: at most one reconnect timer is pending in every reachable state.
C3_OneTimerPending == Len(timers) <= 1

\* C4: a timer-driven initWebSocket call of a mounted session connects with
\* the parameters of the server the session displays at that moment.
C4_ReconnectSameParams ==
    \A s \in DOMAIN sockets :
        (sockets[s].by = "timer" /\ ~sockets[s].late)
            => sockets[s].data = sockets[s].shown

\* ----------------------------------------------- claims on the user actions
\* the React state, the ref and what the browser holds for the page
progVars == <<mounted, id, token, fetches, server, loading, error, messages,
              command, connected, powerLoading, liveStats, wsRef, sockets,
              timers>>

LifecycleRunning == server.state \in {"running", "Running"}
NonEmpty(c) == \E k \in 1..Len(c) : c[k] # " "

\* line contains the text c as a contiguous part
Contains(line, c) ==
    \E k \in 0..(Len(line) - Len(c)) : SubSeq(line, k + 1, k + Len(c)) = c

\* this step is a submission of the command form / a press of a power button
Submitted == last'.op = "sendCommand"
Pressed == last'.op = "power"

\* this step appended the echo line of the command to the log
EchoAppended ==
    /\ Len(messages') = Len(messages) + 1
    /\ Contains(messages'[Len(messages')], <<"$", " ">>)

\* this step appended exactly one line, which contains the command
OneEchoAtEnd ==
    /\ Len(messages') = Len(messages) + 1
    /\ SubSeq(messages', 1, Len(messages)) = messages
    /\ Contains(messages'[Len(messages')], <<"$", " ">> )
    /\ Contains(messages'[Len(messages')], command)

\* C5: a non-empty command submitted while the held socket is absent,
\* connecting, closing or closed puts no frame on the wire, then or later, and
\* appends no echo line.
C5_NotOpenNoSend ==
    [][/\ (Submitted /\ NonEmpty(command) /\ ReadyState # "OPEN")
            => (Len(sent') = 0 /\ ~EchoAppended)
       /\ Len(sent') > 0 => ((Submitted \/ Pressed) /\ ReadyState = "OPEN")]_vars

\* C6: lifecycle-gated commands: a non-empty command submitted while the
\* server is not running sends no frame and appends no echo line; submitted
\* while it is running and the channel is open, the command is sent.
C6_LifecycleGatedCommands ==
    [][(Submitted /\ NonEmpty(command)) =>
          /\ ~LifecycleRunning => (Len(sent') = 0 /\ ~EchoAppended)
          /\ (LifecycleRunning /\ connected /\ ReadyState = "OPEN")
                => /\ Len(sent') = 1
                   /\ sent'[1].event = "send_command"]_vars

\* a non-empty command was just submitted over an open channel while the
\* server is installing or stopped
C6_Witness ==
    /\ last.op = "sendCommand"
    /\ NonEmpty(command)
    /\ server.state \in {"stopped", "installing"}
    /\ connected /\ ReadyState = "OPEN"

\* C7: a successful sendCommand(text) transmits exactly one send_command frame
\* whose data is the text, and appends exactly one echo line containing the
\* text at the end of the log, all earlier lines unchanged.
C7_SendAndEcho ==
    [][(Submitted /\ NonEmpty(command) /\ LifecycleRunning /\ connected
          /\ ReadyState = "OPEN")
         => /\ Len(sent') = 1
            /\ sent'[1].event = "send_command"
            /\ sent'[1].data = command
            /\ OneEchoAtEnd]_vars

\* a command was just sent and echoed below an earlier line
C7_Witness ==
    /\ last.op = "sendCommand"
    /\ Len(sent) = 1
    /\ Len(messages) = 2

\* C8: a press of a power button while the held socket is connecting, closing
\* or closed transmits no frame and does not set powerLoading.
C8_PowerNoopWhenNotOpen ==
    [][(Pressed /\ ReadyState \in {"CONNECTING", "CLOSING", "CLOSED"})
         => (Len(sent') = 0 /\ ~(~powerLoading /\ powerLoading'))]_vars

\* C9: while a power action is pending a press of a power button sends no
\* frame and changes no state, and no second power_action frame is sent
\* between the sending of one and the event that clears the pending action.
C9_PendingBlocksPower ==
    [][Pressed =>
          /\ powerLoading => (Len(sent') = 0 /\ UNCHANGED progVars)
          /\ inflight => Len(sent') = 0]_vars

\* a power button was just pressed while the frame of an earlier press was
\* still unanswered
C9_Witness ==
    /\ last.op = "power"
    /\ inflight /\ powerLoading
    /\ Len(sent) = 0
    /\ ReadyState = "OPEN"

\* the lifecycle forbids the power action a
Rejected(a) ==
    \/ a = "start" /\ LifecycleRunning
    \/ a \in {"stop", "restart"} /\ ~LifecycleRunning

\* C10: power actions are lifecycle-gated: start while running, stop and
\* restart while not running send no frame and leave powerLoading as it was.
C10_PowerLifecycleGated ==
    [][(Pressed /\ Rejected(last'.arg))
         => (Len(sent') = 0 /\ powerLoading' = powerLoading)]_vars

\* stop was just pressed over an open channel with no action pending while
\* the server is not running
C10_Witness ==
    /\ last.op = "power" /\ last.arg = "stop"
    /\ ~LifecycleRunning
    /\ ~powerLoading
    /\ ReadyState = "OPEN"

\* C11: an accepted power action transmits one frame and sets the pending
\* flag: a press of the button of action a while the held socket is open, no
\* action is pending and the lifecycle allows a puts exactly one power_action
\* frame carrying a on the wire and sets powerLoading.
C11_AcceptedPowerAction ==
    [][(Pressed /\ ReadyState = "OPEN" /\ ~powerLoading /\ ~Rejected(last'.arg))
         => /\ Len(sent') = 1
            /\ sent'[1].event = "power_action"
            /\ sent'[1].data.action = last'.arg
            /\ powerLoading']_vars

\* restart was just pressed and accepted: its frame is on the wire and the
\* action is pending
C11_Witness ==
    /\ last.op = "power" /\ last.arg = "restart"
    /\ Len(sent) = 1
    /\ sent[1].event = "power_action" /\ sent[1].data.action = "restart"
    /\ powerLoading /\ inflight

\* this step is ws.onopen of the held socket, created by a reconnect timer
Reopened ==
    /\ wsRef # NoSocket /\ wsRef' = wsRef
    /\ sockets[wsRef].by = "timer"
    /\ sockets[wsRef].rs = "CONNECTING"
    /\ sockets'[wsRef].rs = "OPEN"

\* C12: the pending power action is reset on reconnect: when a power_action
\* frame was transmitted, the connection dropped and neither power_status nor
\* error arrived, powerLoading is no longer set once the socket of a later
\* attempt opens.
C12_PendingResetOnReconnect ==
    [][(Reopened /\ inflight) => ~powerLoading']_vars

IsPrefix(a, b) == Len(a) <= Len(b) /\ SubSeq(b, 1, Len(a)) = a

\* this step is ws.onmessage receiving a frame of event kind e
Received(e) == last'.op = "message" /\ last'.frame.event = e

\* C13: the log is append-only except for auth_success: every step that is
\* not the receipt of an auth_success frame carrying logs leaves the previous
\* log as a prefix of the new one.
C13_AppendOnly ==
    [][IsPrefix(messages, messages')
       \/ (Received("auth_success") /\ last'.frame.data.hasLogs)]_vars

\* a console_output frame was just received and its line stands below the
\* echo of a command sent before
C13_Witness ==
    /\ last.op = "message" /\ last.frame.event = "console_output"
    /\ messages = <<EchoLine(<<" ", "l", "s">>), <<"out">>>>

\* C14: auth_success with data.logs replaces the log by exactly that list, in
\* order, whatever the log held; auth_success without data.logs leaves the
\* log as it was.
C14_ReplayReplaces ==
    [][Received("auth_success")
         => messages' = IF last'.frame.data.hasLogs
                        THEN last'.frame.data.logs
                        ELSE messages]_vars

\* an auth_success frame carrying the history was just received and the log
\* is that history
C14_Witness ==
    /\ last.op = "message" /\ last.frame.event = "auth_success"
    /\ last.frame.data.hasLogs /\ last.frame.data.logs = History
    /\ messages = History

\* the text a frame of the three writing kinds carries for the log
LineText(m) ==
    CASE m.event = "console_output" -> <<m.data.message>>
      [] m.event = "power_status" -> <<m.data.status>>
      [] m.event = "error" -> <<"Error: ">>

\* C15: frames are handled in arrival order: whenever the receipt of a
\* console_output, power_status or error frame or a submission of the command
\* form writes to the log, it adds one line below every line written before,
\* and the line of a frame carries that frame's text; so the lines of the frames
\* stand in the order the frames arrived, with the echoed lines where the user
\* acted.
C15_ArrivalOrder ==
    [][((Received("console_output") \/ Received("power_status")
           \/ Received("error") \/ Submitted)
        /\ messages' # messages)
         => /\ Len(messages') = Len(messages) + 1
            /\ IsPrefix(messages, messages')
            /\ last'.op = "message"
                 => Contains(messages'[Len(messages')], LineText(last'.frame))]_vars

\* console_output arrived first, power_status second, and their lines stand
\* in that order
C15_Witness ==
    /\ last.op = "message" /\ last.frame.event = "power_status"
    /\ messages = <<<<"out">>, <<"started">>>>

\* the snapshot is built from the fields of the data object d alone, a
\* missing memory or network part being zero
BuiltFrom(snap, d) ==
    /\ snap.cpuPercent = d.cpu_percent
    /\ snap.memory.used = (IF d.hasMemory THEN d.memory.used ELSE 0)
    /\ snap.memory.limit = (IF d.hasMemory THEN d.memory.limit ELSE 0)
    /\ snap.memory.percent = (IF d.hasMemory THEN d.memory.percent ELSE 0)
    /\ snap.network.rxBytes = (IF d.hasNetwork THEN d.network.rx_bytes ELSE 0)
    /\ snap.network.txBytes = (IF d.hasNetwork THEN d.network.tx_bytes ELSE 0)

C17_MalformedDropped ==
    [][last'.op = "malformed"
         => UNCHANGED <<messages, liveStats, server, error, powerLoading,
                        connected, wsRef, sockets, timers>>]_vars

\* a string field that is missing or empty
Absent(x) == x \in {"undef", ""}

\* C18: the receipt of an error frame sets the error to data.message, or to the
\* generic text when the message is absent, adds exactly one line, annotated
\* as an error and carrying that text, below the log, and leaves the sockets,
\* the connected flag and the reconnect timers as they were.
C18_RemoteError ==
    [][Received("error")
         => /\ error' = IF Absent(last'.frame.data.message)
                        THEN "An unknown error occurred"
                        ELSE last'.frame.data.message
            /\ Len(messages') = Len(messages) + 1
            /\ IsPrefix(messages, messages')
            /\ messages'[Len(messages')] = <<"Error: ", error'>>
            /\ UNCHANGED <<connected, wsRef, sockets, timers>>]_vars

\* an error frame without a message was just received over the open held
\* socket: the generic text is the error and the connection stays as it was
C18_Witness ==
    /\ last.op = "message" /\ last.frame.event = "error"
    /\ last.frame.data.message = "undef"
    /\ error = "An unknown error occurred"
    /\ messages = <<<<"out">>, <<"Error: ", "An unknown error occurred">>>>
    /\ connected /\ ReadyState = "OPEN"

\* the event kinds the dispatcher knows
Known == {"console_output", "auth_success", "stats", "power_status", "error"}

\* C19: a frame of an event kind outside the known five is ignored: its
\* receipt changes no state of the session.
C19_UnknownIgnored ==
    [][(last'.op = "message" /\ last'.frame.event \notin Known)
         => UNCHANGED progVars]_vars

\* a frame of an unknown kind was just received while an error is shown, a
\* power action is pending and a telemetry snapshot is held
C19_Witness ==
    /\ last.op = "message" /\ last.frame.event = "ping"
    /\ error # NoError /\ powerLoading /\ liveStats # ZeroStats
    /\ Len(messages) > 0

\* this step is the end of fetchServer on the mounted page with the connection
\* parameters missing: the response lacks node.fqdn or node.port, or it is
\* complete and localStorage holds no token when initWebSocket reads it
OpenFailed ==
    /\ mounted
    /\ last'.op = "fetchServer"
    /\ \/ last'.arg = "Server node information is missing"
       \/ last'.arg = "ok" /\ ~token

\* no socket exists after the step that did not exist before it
NoSocketCreated ==
    /\ wsRef' = wsRef
    /\ \A s \in DOMAIN sockets' :
         /\ s \in DOMAIN sockets
         /\ sockets'[s].rs = "CONNECTING" => sockets[s].rs = "CONNECTING"

\* C20: an open with missing connection parameters fails without retry: the
\* step creates no socket, schedules no reconnect timer and starts no further
\* fetch, and the page shows an error.
C20_OpenFailsWithoutRetry ==
    [][OpenFailed
         => /\ NoSocketCreated
            /\ timers' = timers
            /\ \A i \in ServerIds : fetches'[i] <= fetches[i]
            /\ mounted' /\ error' # NoError]_vars

\* ---- parseAnsi
\* the characters of a parameter list of an escape sequence
IsParam(c) == IsDigit(c) \/ c = ";"

\* the length of the well-formed escape sequence ESC [ parameters m the line
\* l starts with, 0 when it starts with none
RECURSIVE ParamRun(_, _)
ParamRun(l, k) == IF k <= Len(l) /\ IsParam(l[k]) THEN ParamRun(l, k + 1) ELSE k
SequenceLen(l) ==
    IF Len(l) >= 3 /\ l[1] = ESC /\ l[2] = "["
       /\ ParamRun(l, 3) <= Len(l) /\ l[ParamRun(l, 3)] = "m"
    THEN ParamRun(l, 3) ELSE 0

\* every ESC [ of the line begins a well-formed escape sequence
WellFormed(l) ==
    \A p \in 1..Len(l) :
        (l[p] = ESC /\ p < Len(l) /\ l[p + 1] = "[")
          => SequenceLen(SubSeq(l, p, Len(l))) > 0

\* the line with its well-formed escape sequences removed
RECURSIVE Stripped(_)
Stripped(l) ==
    IF l = <<>> THEN <<>>
    ELSE IF SequenceLen(l) > 0 THEN Stripped(SubSeq(l, SequenceLen(l) + 1, Len(l)))
    ELSE <<Head(l)>> \o Stripped(Tail(l))

\* the text fields of the spans, concatenated in order
RECURSIVE Texts(_)
Texts(spans) == IF spans = <<>> THEN <<>> ELSE Head(spans).text \o Texts(Tail(spans))

\* C21: round trip: for a line all of whose escape sequences are well formed,
\* the texts of the returned spans, concatenated in order, are the line with
\* the escape sequences removed.
C21_RoundTrip ==
    (returned /\ WellFormed(input)) => Texts(result) = Stripped(input)

\* parseAnsi returned for a well-formed line with text, the letter m as text
\* and two escape sequences
C21_Witness ==
    /\ returned
    /\ input = <<"a">> \o Sgr(<<"3", "1", ";", "3">>) \o <<"m">> \o Sgr(<<>>)
    /\ WellFormed(input)
    /\ Texts(result) = <<"a", "m">>

\* this step is the pass of the loop over the escape sequence at position
EscapeStep == IsIntroducer(input, position) /\ position' > position

\* C22: reset idempotence: applying a code list that starts with 0 to any
\* style gives what applying the rest of the list to the default style gives;
\* the text after such a sequence carries nothing set before it.
C22_ResetIdempotence ==
    [][(EscapeStep /\ Head(CodesAt(input, position)) = 0)
         => currentSpan'.style = ApplyCodes(NoStyle, Tail(CodesAt(input, position)))]_vars

\* red italic text, then the sequence 0;4, then text: the second span is
\* underlined and nothing else
C22_Witness ==
    /\ returned
    /\ input = Sgr(<<"3", "1", ";", "3">>) \o <<"a">> \o Sgr(<<"0", ";", "4">>) \o <<"a">>
    /\ Len(result) = 2
    /\ result[1].style = [NoStyle EXCEPT !.color = "#d16969", !.fontStyle = "italic"]
    /\ result[2].style = [NoStyle EXCEPT !.textDecoration = "underline"]

\* C23: the parser never returns an empty segment: every span of result, at
\* every point of the call and at its return, has non-empty text.
C23_NoEmptySegment ==
    \A k \in 1..Len(result) : result[k].text # <<>>

\* parseAnsi returned for two escape sequences in a row at the start of the
\* line, one letter, and an escape sequence at its end: one span
C23_Witness ==
    /\ returned
    /\ input = Sgr(<<>>) \o Sgr(<<"0", ";", "4">>) \o <<"a">> \o Sgr(<<"5", ";", "1">>)
    /\ Len(result) = 1
    /\ result[1].text = <<"a">>

\* the codes of all escape sequences of the line l that end before position
\* p, in order, scanning from position q
RECURSIVE CodesFrom(_, _, _)
CodesFrom(l, p, q) ==
    IF q >= p \/ q >= Len(l) THEN <<>>
    ELSE IF IsIntroducer(l, q)
    THEN CodesAt(l, q) \o CodesFrom(l, p, AfterCode(l, q))
    ELSE CodesFrom(l, p, q + 1)
CodesBefore(l, p) == CodesFrom(l, p, 0)

\* C24: a span carries the style in force where its text stands: when a span
\* is pushed its style is the result of applying, in order from the default
\* style, the codes of all escape sequences before its text, and no step
\* alters a span pushed earlier.
C24_StyleCarried ==
    [][/\ IsPrefix(result, result')
       /\ Len(result') > Len(result)
            => /\ Len(result') = Len(result) + 1
               /\ result'[Len(result')].style =
                    ApplyCodes(NoStyle, CodesBefore(input, position))]_vars

\* bold text, then the sequence 31;3, then text: the first span stays bold
\* only, the second is bold, red and italic
C24_Witness ==
    /\ returned
    /\ input = Sgr(<<"5", ";", "1">>) \o <<"a">> \o Sgr(<<"3", "1", ";", "3">>) \o <<"m">>
    /\ Len(result) = 2
    /\ result[1] = Span(<<"a">>, [NoStyle EXCEPT !.fontWeight = "bold"])
    /\ result[2] = Span(<<"m">>, [NoStyle EXCEPT !.fontWeight = "bold",
                                  !.color = "#d16969", !.fontStyle = "italic"])

\* the table of the codes, applied to one token of a code list: the empty
\* token is 0, a token that is no number changes nothing
TableEntry(style, tok) ==
    IF tok = <<>> THEN NoStyle
    ELSE IF \E k \in 1..Len(tok) : ~IsDigit(tok[k]) THEN style
    ELSE LET c == Decimal(tok) IN
         IF c = 0 THEN NoStyle
         ELSE IF c = 1 THEN [style EXCEPT !.fontWeight = "bold"]
         ELSE IF c = 3 THEN [style EXCEPT !.fontStyle = "italic"]
         ELSE IF c = 4 THEN [style EXCEPT !.textDecoration = "underline"]
         ELSE IF c \in 30..37 THEN [style EXCEPT !.color = ANSI_COLORS[c - 30]]
         ELSE IF c \in 90..97 THEN [style EXCEPT !.color = ANSI_COLORS[8 + (c - 90)]]
         ELSE IF c \in 40..47 THEN [style EXCEPT !.backgroundColor = ANSI_COLORS[c - 40]]
         ELSE IF c \in 100..107
         THEN [style EXCEPT !.backgroundColor = ANSI_COLORS[8 + (c - 100)]]
         ELSE style

\* the reference fold of the table over the tokens of a code list
RECURSIVE TableFold(_, _)
TableFold(style, toks) ==
    IF toks = <<>> THEN style
    ELSE TableFold(TableEntry(style, Head(toks)), Tail(toks))

\* C27: the codes of a sequence are applied in order by the table (0 and the
\* empty token reset, 1 bold, 3 italic, 4 underline, 30..37 and 90..97 the
\* foreground, 40..47 and 100..107 the background, anything else nothing):
\* the style after a sequence is the fold of the table over its tokens.
C27_CodeTable ==
    [][EscapeStep
         => currentSpan'.style =
              TableFold(currentSpan.style, Split(CodeAt(input, position)))]_vars

\* a non-numeric token, 91 and 103, then text, then the unknown code 5 and
\* 1, then text: bright red on bright yellow, then the same in bold
C27_Witness ==
    /\ returned
    /\ input = Sgr(<<"x", ";", "9", "1", ";", "1", "0", "3">>) \o <<"a">>
                 \o Sgr(<<"5", ";", "1">>) \o <<"a">>
    /\ Len(result) = 2
    /\ result[1].style = [NoStyle EXCEPT !.color = "#d16969",
                                        !.backgroundColor = "#d7ba7d"]
    /\ result[2].style = [NoStyle EXCEPT !.color = "#d16969",
                                        !.backgroundColor = "#d7ba7d",
                                        !.fontWeight = "bold"]

\* the introducer at position p of the line l has no 'm' after it
Unterminated(l, p) ==
    IsIntroducer(l, p) /\ \A k \in (p + 3)..Len(l) : l[k] # "m"

\* C30: the parser terminates: every pass of the loop moves position forward,
\* at most one past the end of the line; the pass over an introducer without
\* 'm' consumes the rest of the line into no span; the pass over an ESC that
\* is not followed by '[' keeps it as text.
C30_ScanAdvances ==
    [][~returned'
         => /\ position' > position
            /\ position' <= Len(input) + 1
            /\ Unterminated(input, position)
                 => /\ position' = Len(input) + 1
                    /\ currentSpan'.text = <<>>
                    /\ Texts(result') = Texts(result) \o currentSpan.text
            /\ (input[position + 1] = ESC /\ ~IsIntroducer(input, position))
                 => currentSpan'.text = Append(currentSpan.text, ESC)]_vars

\* parseAnsi returned for text, a lone ESC, an introducer without 'm' and
\* more text: one span holding the text and the ESC, the rest in no span
C30_Witness ==
    /\ returned
    /\ input = <<"a", ESC, ESC, "[", "4", "2", "a">>
    /\ position = Len(input) + 1
    /\ Len(result) = 1
    /\ result[1].text = <<"a", ESC>>

\* ---- connection supervision, continued
\* this step delivers onclose (after onerror, when the connection failed) of
\* the socket s
OnClose(s) ==
    /\ s \in DOMAIN sockets /\ sockets[s].rs # "CLOSED"
    /\ s \notin DOMAIN sockets' \/ sockets'[s].rs = "CLOSED"

\* C25: open -(onClose|onError)-> closed: when the close of a socket that was
\* open is reported to the mounted page, with or without an error before it,
\* connected becomes false and one reconnect timer holding the parameters of
\* that socket is scheduled.
C25_CloseSchedulesReconnect ==
    [][\A s \in SocketIds :
         (mounted /\ OnClose(s) /\ sockets[s].rs = "OPEN")
           => /\ connected' = FALSE
              /\ timers' = Append(timers, sockets[s].data)]_vars

\* the held socket was open and closed without an error: the page is
\* disconnected and the reconnect timer is pending
C25_Witness ==
    /\ mounted /\ HeldClosed
    /\ error = NoError
    /\ ~connected
    /\ timers = <<1>>

\* ---- dispatcher, continued
\* the pending power action after the receipt of a frame, as claimed for all
\* event kinds
PendingAsClaimed ==
    /\ (Received("power_status") \/ Received("error")) => ~powerLoading'
    /\ (last'.op = "message" /\ last'.frame.event \notin {"power_status", "error"})
         => powerLoading' = powerLoading

Awaiting(s) == sockets[s].rs \in {"CONNECTING", "CLOSING"}

Live == {s \in DOMAIN sockets : sockets[s].rs \in {"CONNECTING", "OPEN"}}

\* C29: at most one socket of the page is connecting or open at any time,
\* whatever the order of fetch completions, timer firings and close callbacks.
C29_OneLiveSocket == Cardinality(Live) <= 1

\* a new socket is connecting while the one it replaced, closed by
\* initWebSocket or the cleanup, has not finished closing
C29_Witness ==
    /\ wsRef # NoSocket /\ sockets[wsRef].rs = "CONNECTING"
    /\ \E s \in DOMAIN sockets : s # wsRef /\ sockets[s].rs = "CLOSING"
    /\ Cardinality(Live) = 1

====
